---- MODULE Spec2Model ----
(***************************************************************************)
(* Name trees and number trees of the pdf crate (object/types.rs): the     *)
(* construction of a node from a dictionary primitive, the recursive walk  *)
(* over the object store, the writing of a number tree, the PageRc         *)
(* wrapper of a shared page node, and the input split of the decode fuzz   *)
(* target (fuzz/fuzz_targets/overflow.rs).                                 *)
(***************************************************************************)
EXTENDS Integers, Sequences, FiniteSets, TLC

(* ---------------- bounds of the model ---------------- *)

\* Number of tree-node objects of the file (object ids 1..MaxNodes).
MaxNodes == 3
\* Keys (and leaf values) range over 1..MaxKey; a string key is its rank.
MaxKey == 2
\* Longest array written inline in the root dictionary.
MaxList == 3
\* Total number of Kids entries and leaf lists the file holds, the root's included.
MaxSize == 4
\* Number of nested walk invocations the native stack holds.
StackLimit == 5

NodeIds == 1..MaxNodes

(* ---------------- Primitive values ---------------- *)

Absent == [k |-> "Absent"]
Missing == [k |-> "Missing"]
Unread == [k |-> "Unread"]
Integer(n) == [k |-> "Int", n |-> n]
String(s) == [k |-> "Str", s |-> s]
Arr(a) == [k |-> "Arr", a |-> a]
Reference(id) == [k |-> "Ref", id |-> id]
Dict(limits, kids, leaf) == [k |-> "Dict", Limits |-> limits, Kids |-> kids, Leaf |-> leaf]

Ok(v) == [ok |-> TRUE, v |-> v]
Err(e) == [ok |-> FALSE, e |-> e]
None == [some |-> FALSE]
Some(x) == [some |-> TRUE, x |-> x]

\* The key type of a tree: PdfString for a NameTree, i32 for a NumberTree.
KeyPrim(kd, n) == IF kd = "Number" THEN Integer(n) ELSE String(n)

(* ---------------- the object store ---------------- *)

\* Objects of the file that are not tree nodes: an integer, a string, three
\* arrays, and an object that refers to itself.  NoObj is an id the file
\* does not define.
IntObj == MaxNodes + 1
StrObj == MaxNodes + 2
IntArrObj == MaxNodes + 3
StrArrObj == MaxNodes + 4
PairObj == MaxNodes + 5
KidsObj == MaxNodes + 6
LoopObj == MaxNodes + 7
NoObj == MaxNodes + 8

AuxIds == {IntObj, StrObj, IntArrObj, StrArrObj, PairObj, KidsObj, LoopObj}

AuxObject(id) ==
  CASE id = IntObj -> Integer(1)
    [] id = StrObj -> String(1)
    [] id = IntArrObj -> Arr(<<Integer(1), Integer(MaxKey)>>)
    [] id = StrArrObj -> Arr(<<String(1), String(MaxKey)>>)
    [] id = PairObj -> Arr(<<String(1), Integer(MaxKey)>>)
    [] id = KidsObj -> Arr(<<Reference(1)>>)
    [] id = LoopObj -> Reference(LoopObj)
    [] OTHER -> Missing

\* The value of a dictionary entry behind at most one indirection.
Direct(p) == IF p.k = "Ref" /\ p.id \in AuxIds THEN AuxObject(p.id) ELSE p

\* The object the store holds under an id.
Lookup(st, id) == IF id \in NodeIds THEN st[id] ELSE AuxObject(id)

\* Resolve::resolve: the primitive stored under a reference, following a
\* chain of references; a dangling id and a chain that returns to an id it
\* is already resolving are errors.
RECURSIVE resolve_ref(_, _, _)
resolve_ref(st, id, seen) ==
  IF id \in seen THEN Err("Cycle")
  ELSE LET o == Lookup(st, id) IN
       IF o.k \in {"Missing", "Unread"} THEN Err("NotFound")
       ELSE IF o.k = "Ref" THEN resolve_ref(st, o.id, seen \cup {id})
       ELSE Ok(o)

\* Primitive::resolve
resolve(p, st) == IF p.k = "Ref" THEN resolve_ref(st, p.id, {}) ELSE Ok(p)

into_dictionary(p) == IF p.k = "Dict" THEN Ok(p) ELSE Err("UnexpectedPrimitive")
into_array(p) == IF p.k = "Arr" THEN Ok(p.a) ELSE Err("UnexpectedPrimitive")
into_string(p) == IF p.k = "Str" THEN Ok(p.s) ELSE Err("UnexpectedPrimitive")
as_integer(p) == IF p.k = "Int" THEN Ok(p.n) ELSE Err("UnexpectedPrimitive")

\* Ref::<T>::from_primitive: the primitive must be a reference; nothing is resolved.
Ref_from_primitive(p) == IF p.k = "Ref" THEN Ok(p.id) ELSE Err("UnexpectedPrimitive")

\* The ? operator and t!(): an error returns at once, a value goes on.
Try(r, F(_)) == IF r.ok THEN F(r.v) ELSE r

\* T::from_primitive for the value type of the tree, here an integer object.
T_from_primitive(p, st) == Try(resolve(p, st), as_integer)

\* collect::<Result<Vec<_>>>(): the first error of a sequence of results, or all values.
FirstBad(rs, bad) == rs[CHOOSE i \in bad : \A j \in bad : i <= j]
Collected(rs, bad) == IF bad # {} THEN FirstBad(rs, bad) ELSE Ok([i \in DOMAIN rs |-> rs[i].v])
Collect(rs) == Collected(rs, {i \in DOMAIN rs : ~rs[i].ok})

Intermediate(limits, kids) == [limits |-> limits, node |-> [t |-> "Intermediate", kids |-> kids]]
Leaf(limits, items) == [limits |-> limits, node |-> [t |-> "Leaf", items |-> items]]

(* ---------------- NameTree::from_primitive ---------------- *)

\* NameTree_limits with the pair stored as (max, min).
NameTree_limits_swapped(dict, st) ==
  IF dict.Limits.k = "Absent" THEN Ok(None)
  ELSE Try(resolve(dict.Limits, st), LAMBDA l :
       Try(into_array(l), LAMBDA limits :
         IF Len(limits) # 2 THEN Err("LimitsLength")
         ELSE Try(into_string(limits[1]), LAMBDA min :
              Try(into_string(limits[2]), LAMBDA max :
                Ok(Some(<<max, min>>))))))

NameTree_limits(dict, st) ==
  IF dict.Limits.k = "Absent" THEN Ok(None)
  ELSE Try(resolve(dict.Limits, st), LAMBDA l :
       Try(into_array(l), LAMBDA limits :
         IF Len(limits) # 2 THEN Err("LimitsLength")
         ELSE Try(into_string(limits[1]), LAMBDA min :
              Try(into_string(limits[2]), LAMBDA max :
                Ok(Some(<<min, max>>))))))

NameTree_kids(kids, st) ==
  Try(resolve(kids, st), LAMBDA k :
  Try(into_array(k), LAMBDA a :
    Collect([i \in DOMAIN a |-> Ref_from_primitive(a[i])])))

\* for pair in names.chunks_exact(2): a trailing unpaired element is skipped.
NameTree_names(names, st) ==
  Try(resolve(names, st), LAMBDA n :
  Try(into_array(n), LAMBDA a :
    Collect([i \in 1..(Len(a) \div 2) |->
      Try(Try(resolve(a[2 * i - 1], st), into_string), LAMBDA name :
      Try(T_from_primitive(a[2 * i], st), LAMBDA value :
        Ok(<<name, value>>)))])))

\* NameTree_match with the (None, None) arm returning an error.
NameTree_match_strict(dict, limits, st) ==
  IF dict.Kids.k # "Absent"
  THEN Try(NameTree_kids(dict.Kids, st), LAMBDA kids : Ok(Intermediate(limits, kids)))
  ELSE IF dict.Leaf.k # "Absent"
  THEN Try(NameTree_names(dict.Leaf, st), LAMBDA new_names : Ok(Leaf(limits, new_names)))
  ELSE Err("MalformedStructure")

NameTree_match(dict, limits, st) ==
  IF dict.Kids.k # "Absent"
  THEN Try(NameTree_kids(dict.Kids, st), LAMBDA kids : Ok(Intermediate(limits, kids)))
  ELSE IF dict.Leaf.k # "Absent"
  THEN Try(NameTree_names(dict.Leaf, st), LAMBDA new_names : Ok(Leaf(limits, new_names)))
  ELSE Ok(Intermediate(limits, <<>>))

NameTree_from_primitive(p, st) ==
  Try(resolve(p, st), LAMBDA q :
  Try(into_dictionary(q), LAMBDA dict :
  Try(NameTree_limits(dict, st), LAMBDA limits :
    NameTree_match(dict, limits, st))))

(* ---------------- NumberTree::from_primitive ---------------- *)

NumberTree_limits(dict, st) ==
  IF dict.Limits.k = "Absent" THEN Ok(None)
  ELSE Try(resolve(dict.Limits, st), LAMBDA l :
       Try(into_array(l), LAMBDA limits :
         IF Len(limits) # 2 THEN Err("LimitsLength")
         ELSE Try(as_integer(limits[1]), LAMBDA min :
              Try(as_integer(limits[2]), LAMBDA max :
                Ok(Some(<<min, max>>))))))

NumberTree_kids(kids, st) ==
  Try(resolve(kids, st), LAMBDA k :
  Try(into_array(k), LAMBDA a :
    Collect([i \in DOMAIN a |-> Ref_from_primitive(a[i])])))

\* nums.into_array() without resolving; list.into_iter().tuples() skips a
\* trailing unpaired element; the key is read with as_integer, unresolved.
NumberTree_nums(nums, st) ==
  Try(into_array(nums), LAMBDA list :
    Collect([i \in 1..(Len(list) \div 2) |->
      Try(as_integer(list[2 * i - 1]), LAMBDA idx :
      Try(T_from_primitive(list[2 * i], st), LAMBDA val :
        Ok(<<idx, val>>)))]))

\* NumberTree_match with the Nums arm tried before the Kids arm.
NumberTree_match_numsFirst(dict, limits, st) ==
  IF dict.Leaf.k # "Absent"
  THEN Try(NumberTree_nums(dict.Leaf, st), LAMBDA items : Ok(Leaf(limits, items)))
  ELSE IF dict.Kids.k # "Absent"
  THEN Try(NumberTree_kids(dict.Kids, st), LAMBDA kids : Ok(Intermediate(limits, kids)))
  ELSE Ok(Intermediate(limits, <<>>))

NumberTree_match(dict, limits, st) ==
  IF dict.Kids.k # "Absent"
  THEN Try(NumberTree_kids(dict.Kids, st), LAMBDA kids : Ok(Intermediate(limits, kids)))
  ELSE IF dict.Leaf.k # "Absent"
  THEN Try(NumberTree_nums(dict.Leaf, st), LAMBDA items : Ok(Leaf(limits, items)))
  ELSE Ok(Intermediate(limits, <<>>))

NumberTree_from_primitive(p, st) ==
  Try(resolve(p, st), LAMBDA q :
  Try(into_dictionary(q), LAMBDA dict :
  Try(NumberTree_limits(dict, st), LAMBDA limits :
    NumberTree_match(dict, limits, st))))

\* The tree type under construction fixes which from_primitive runs.
from_primitive(kd, p, st) ==
  IF kd = "Number" THEN NumberTree_from_primitive(p, st)
  ELSE NameTree_from_primitive(p, st)

\* Resolve::get(tree_ref): resolve the reference, then build the tree node.
Resolve_get(kd, id, st) == from_primitive(kd, Reference(id), st)

(* ---------------- the files and dictionaries the model ranges over ---------------- *)

Seqs(S, n) == UNION {[1..m -> S] : m \in 0..n}

\* Array elements: integers, strings, and references to an integer and a string object.
Elems ==
  {Integer(n) : n \in 1..MaxKey} \cup {String(n) : n \in 1..MaxKey}
    \cup {Reference(IntObj), Reference(StrObj)}

\* A leaf list of the tree's own types: keys at the even offsets, integer values at the odd ones.
TypedLists(kd, n) ==
  {[i \in 1..m |-> IF i % 2 = 1 THEN KeyPrim(kd, ks[i]) ELSE Integer(ks[i])] :
     m \in 0..n, ks \in [1..n -> 1..MaxKey]}

ValidLimits(kd) == {Arr(<<KeyPrim(kd, a), KeyPrim(kd, b)>>) : a, b \in 1..MaxKey}

LimitsPrims ==
  {Arr(a) : a \in Seqs(Elems, MaxList - 1)}
    \cup {Integer(1), Reference(IntArrObj), Reference(StrArrObj), Reference(IntObj),
          Reference(LoopObj), Reference(NoObj)}

LeafPrims ==
  {Arr(a) : a \in Seqs(Elems, MaxList)}
    \cup {Integer(1), Reference(PairObj), Reference(IntArrObj), Reference(NoObj)}

MaxOf(S) == CHOOSE m \in S : \A x \in S : x <= m

\* Object ids are labels: the files range over one numbering of their node
\* objects, the one in which a node not referred to before (m is the highest
\* id referred to so far) takes the next id.
InOrder(a, m) ==
  \A i \in DOMAIN a : a[i].id <= 1 + MaxOf({m} \cup {a[j].id : j \in 1..(i - 1)})

\* Kids arrays of up to n references to node objects.
KidsArrays(n, m) ==
  {Arr(a) : a \in {b \in Seqs({Reference(i) : i \in NodeIds}, n) : InOrder(b, m)}}

\* Every shape of a short Kids entry: an array of references and integers,
\* a non-array, a reference to an array, a dangling reference.
KidsPrims ==
  {Arr(a) : a \in Seqs({Reference(1), Integer(1)}, MaxList - 1)}
    \cup {Integer(1), Reference(KidsObj), Reference(NoObj)}

\* The dictionaries from_primitive is called on: every shape of Limits over
\* three bodies, every shape of the leaf list, typed leaf lists under valid
\* Limits, and every shape of Kids next to an absent, a malformed and a
\* well-formed leaf list.
RootPrims(kd) ==
  {Dict(l, Absent, f) : l \in LimitsPrims \cup {Absent},
                         f \in {Absent, Arr(<<KeyPrim(kd, 1), Integer(MaxKey)>>)}}
    \cup {Dict(Absent, Absent, f) : f \in LeafPrims}
    \cup {Dict(l, Absent, Arr(f)) : l \in ValidLimits(kd), f \in TypedLists(kd, MaxList)}
    \cup {Dict(l, k, f) : l \in {Absent, Arr(<<KeyPrim(kd, 1), KeyPrim(kd, 1)>>)},
                           k \in KidsPrims,
                           f \in {Absent, Integer(1), Arr(<<KeyPrim(kd, 1), Integer(MaxKey)>>)}}
    \cup {Dict(Absent, k, Absent) : k \in KidsArrays(MaxSize, 0)}
    \cup {Integer(1), Reference(IntArrObj)}

\* The value stored next to key n in the leaves of the file's node objects.
ValOf(n) == n + MaxKey

\* The leaf list holding the keys lo..hi in ascending order, each with its value.
RunList(kd, lo, hi) ==
  [i \in 1..(2 * (hi - lo + 1)) |->
     IF i % 2 = 1 THEN KeyPrim(kd, lo + (i - 1) \div 2)
     ELSE Integer(ValOf(lo + (i - 2) \div 2))]

\* What a node object of the file can be when at most n more entries fit
\* and m is the highest id referred to so far: no object, an empty
\* dictionary, a node with Kids, a leaf with a run of keys.
NodeObjects(kd, n, m) ==
  {Missing, Dict(Absent, Absent, Absent)}
    \cup {Dict(Absent, k, Absent) : k \in KidsArrays(n, m) \ {Arr(<<>>)}}
    \cup {Dict(Absent, Absent, Arr(RunList(kd, run[1], run[2]))) :
            run \in {r \in (1..MaxKey) \X (1..MaxKey) : r[1] <= r[2] /\ n > 0}}

\* Entries an object holds: its Kids references, or one for a leaf list.
ObjectSize(o) ==
  IF o.k # "Dict" THEN 0
  ELSE IF o.Kids.k = "Arr" THEN Len(o.Kids.a)
  ELSE IF o.Leaf.k = "Arr" THEN 1
  ELSE 0

RECURSIVE SumSizes(_, _)
SumSizes(st, ids) ==
  IF ids = {} THEN 0
  ELSE LET i == CHOOSE i \in ids : TRUE IN ObjectSize(st[i]) + SumSizes(st, ids \ {i})

(* ---------------- state ---------------- *)

VARIABLES
  kind,      \* "Name" or "Number": the tree type built and walked
  root,      \* the primitive from_primitive is called on
  store,     \* the node objects of the file, fixed when first read
  tree,      \* the result of from_primitive(root)
  stack,     \* active walk invocations, innermost last
  log,       \* the (key, value) pairs passed to the callback, in order
  resolved,  \* the ids passed to Resolve::get, in order
  ret,       \* the result walk returned to its caller
  pc,        \* start, failed, built, walking, unwinding, done, aborted
  data,      \* the fuzz input
  offset,    \* the fuzz target's read position
  filter_type, \* data[0] % 6
  params,    \* the values get_i32 returned, in order
  filter,    \* the StreamFilter variant built by the match
  payload,   \* the bytes handed to decode
  fpc,       \* the fuzz target's position
  objects,   \* the page-tree objects behind the Resolve and Updater capabilities
  cache,     \* the session's shared instances, by object id
  held,      \* the PageRc values the caller has obtained
  pres,      \* the result of the last PageRc operation
  pop,       \* the last PageRc operation and its argument
  pn,        \* number of PageRc operations done
  wtree,     \* the NumberTree to_primitive is called on
  wprim,     \* the result of to_primitive
  wback,     \* the result of from_primitive on the primitive written
  wpc        \* written, read back

treeVars == <<kind, root, store, tree, stack, log, resolved, ret, pc>>
fuzzVars == <<data, offset, filter_type, params, filter, payload, fpc>>
pageVars == <<objects, cache, held, pres, pop, pn>>
writeVars == <<wtree, wprim, wback, wpc>>
vars == <<kind, root, store, tree, stack, log, resolved, ret, pc,
          data, offset, filter_type, params, filter, payload, fpc,
          objects, cache, held, pres, pop, pn,
          wtree, wprim, wback, wpc>>

PageIdle ==
  /\ objects = <<>> /\ cache = <<>> /\ held = {} /\ pres = None
  /\ pop = <<"off">> /\ pn = 0

WriteIdle ==
  /\ wtree = None /\ wprim = None /\ wback = None /\ wpc = "off"

FuzzIdle ==
  /\ data = <<>> /\ offset = 0 /\ filter_type = 0 /\ params = <<>> /\ filter = "none"
  /\ payload = <<>> /\ fpc = "off"

Init ==
  /\ kind \in {"Name", "Number"}
  /\ root \in RootPrims(kind)
  /\ store = [i \in NodeIds |-> Unread]
  /\ tree = None
  /\ stack = <<>>
  /\ log = <<>>
  /\ resolved = <<>>
  /\ ret = None
  /\ pc = "start"
  /\ FuzzIdle
  /\ PageIdle
  /\ WriteIdle

(* ---------------- from_primitive on the root, then walk ---------------- *)

Construct ==
  /\ pc = "start"
  /\ tree' = from_primitive(kind, root, store)
  /\ pc' = IF tree'.ok THEN "built" ELSE "failed"
  /\ UNCHANGED <<kind, root, store, stack, log, resolved, ret>>
  /\ UNCHANGED <<fuzzVars, pageVars, writeVars>>

Frame(id, t) == [id |-> id, tree |-> t, i |-> 0]
Top == stack[Len(stack)]
SetTop(f) == [stack EXCEPT ![Len(stack)] = f]

\* walk(&self, r, callback) called on the constructed root node.
Walk ==
  /\ pc = "built"
  /\ stack' = <<Frame(0, tree.v)>>
  /\ pc' = "walking"
  /\ UNCHANGED <<kind, root, store, tree, log, resolved, ret>>
  /\ UNCHANGED <<fuzzVars, pageVars, writeVars>>

\* for (name, val) in items { callback(name, val); }
Callback ==
  /\ pc = "walking"
  /\ Top.tree.node.t = "Leaf"
  /\ Top.i < Len(Top.tree.node.items)
  /\ log' = Append(log, Top.tree.node.items[Top.i + 1])
  /\ stack' = SetTop([Top EXCEPT !.i = @ + 1])
  /\ UNCHANGED <<kind, root, store, tree, resolved, ret, pc>>
  /\ UNCHANGED <<fuzzVars, pageVars, writeVars>>

\* Entries still free in the file.
Budget == MaxSize - ObjectSize(root) - SumSizes(store, NodeIds)

\* The node ids an object refers to in its Kids.
KidIds(o) ==
  IF o.k = "Dict" /\ Direct(o.Kids).k = "Arr"
  THEN {Direct(o.Kids).a[i].id : i \in {j \in DOMAIN Direct(o.Kids).a : Direct(o.Kids).a[j].k = "Ref"}}
  ELSE {}

\* The highest node id referred to so far.
Mentioned == MaxOf({0} \cup KidIds(root) \cup UNION {KidIds(store[i]) : i \in NodeIds})

\* The file read at object id: a node object not read before is fixed now.
Read(id) ==
  IF id \in NodeIds /\ store[id].k = "Unread"
  THEN {[store EXCEPT ![id] = o] : o \in NodeObjects(kind, Budget, Mentioned)}
  ELSE {store}

\* NextRefs with the children taken from the end of Kids.
NextRefs_reversed(f) == <<f.tree.node.kids[Len(f.tree.node.kids) - f.i]>>

\* NextRefs with every remaining child resolved before the first is walked.
NextRefs_eager(f) == SubSeq(f.tree.node.kids, f.i + 1, Len(f.tree.node.kids))

\* The references the loop body resolves in one iteration: the next one.
NextRefs(f) == <<f.tree.node.kids[f.i + 1]>>

AtKid ==
  /\ pc = "walking"
  /\ Top.tree.node.t = "Intermediate"
  /\ Top.i < Len(Top.tree.node.kids)

\* let tree = r.get(tree_ref)?;  the error leaves the loop and the function.
GetErrStep(st, r) ==
  /\ ~r.ok
  /\ store' = st
  /\ resolved' = resolved \o NextRefs(Top)
  /\ ret' = r
  /\ pc' = "unwinding"
  /\ stack' = SetTop([Top EXCEPT !.i = @ + 1])

GetErr ==
  /\ AtKid
  /\ \E st \in Read(NextRefs(Top)[1]) : GetErrStep(st, Resolve_get(kind, NextRefs(Top)[1], st))
  /\ UNCHANGED <<kind, root, tree, log>>
  /\ UNCHANGED <<fuzzVars, pageVars, writeVars>>

\* let tree = r.get(tree_ref)?; tree.walk(r, callback)
WalkKidStep(st, r) ==
  /\ r.ok
  /\ store' = st
  /\ resolved' = resolved \o NextRefs(Top)
  /\ stack' = Append(SetTop([Top EXCEPT !.i = @ + 1]), Frame(NextRefs(Top)[1], r.v))

WalkKid ==
  /\ AtKid
  /\ Len(stack) < StackLimit
  /\ \E st \in Read(NextRefs(Top)[1]) : WalkKidStep(st, Resolve_get(kind, NextRefs(Top)[1], st))
  /\ UNCHANGED <<kind, root, tree, log, ret, pc>>
  /\ UNCHANGED <<fuzzVars, pageVars, writeVars>>

\* The nested call finds no room on the native stack: the process aborts.
StackOverflowStep(st, r) ==
  /\ r.ok
  /\ store' = st
  /\ resolved' = resolved \o NextRefs(Top)
  /\ stack' = SetTop([Top EXCEPT !.i = @ + 1])

StackOverflow ==
  /\ AtKid
  /\ Len(stack) = StackLimit
  /\ \E st \in Read(NextRefs(Top)[1]) :
       StackOverflowStep(st, Resolve_get(kind, NextRefs(Top)[1], st))
  /\ pc' = "aborted"
  /\ UNCHANGED <<kind, root, tree, log, ret>>
  /\ UNCHANGED <<fuzzVars, pageVars, writeVars>>

Finished(f) ==
  IF f.tree.node.t = "Leaf" THEN f.i = Len(f.tree.node.items)
  ELSE f.i = Len(f.tree.node.kids)

\* Ok(()) at the end of walk: back in the caller's loop, or at the caller of the root walk.
Return ==
  /\ pc = "walking"
  /\ Finished(Top)
  /\ stack' = SubSeq(stack, 1, Len(stack) - 1)
  /\ IF Len(stack) = 1
     THEN pc' = "done" /\ ret' = Ok(<<>>)
     ELSE UNCHANGED <<pc, ret>>
  /\ UNCHANGED <<kind, root, store, tree, log, resolved>>
  /\ UNCHANGED <<fuzzVars, pageVars, writeVars>>

\* The ? operator: each active invocation returns the error to its caller.
Unwind ==
  /\ pc = "unwinding"
  /\ stack' = SubSeq(stack, 1, Len(stack) - 1)
  /\ pc' = IF Len(stack) = 1 THEN "done" ELSE "unwinding"
  /\ UNCHANGED <<kind, root, store, tree, log, resolved, ret>>
  /\ UNCHANGED <<fuzzVars, pageVars, writeVars>>

Next == Construct \/ Walk \/ Callback \/ GetErr \/ WalkKid \/ StackOverflow \/ Return \/ Unwind

Spec == Init /\ [][Next]_vars

(* ---------------- fuzz target: selector, parameters, payload ---------------- *)

\* Selector bytes range over 0..MaxSelector.
MaxSelector == 7
\* Longest payload behind the parameter bytes.
MaxPayload == 2

\* i32_from_le_bytes with the first byte carrying the sign.
i32_from_be_bytes(b) ==
  b[4] + 256 * b[3] + 65536 * b[2]
    + 16777216 * (IF b[1] >= 128 THEN b[1] - 256 ELSE b[1])

\* i32::from_le_bytes: two's complement, the last byte carrying the sign.
i32_from_le_bytes(b) ==
  b[1] + 256 * b[2] + 65536 * b[3]
    + 16777216 * (IF b[4] >= 128 THEN b[4] - 256 ELSE b[4])

\* get_i32 advancing the offset also when fewer than four bytes remain.
get_i32_advancing(d, off) ==
  IF off + 4 > Len(d) THEN <<0, off + 4>>
  ELSE <<i32_from_le_bytes(SubSeq(d, off + 1, off + 4)), off + 4>>

\* get_i32(data, &mut offset): the value returned and the offset afterwards.
get_i32(d, off) ==
  IF off + 4 > Len(d) THEN <<0, off>>
  ELSE <<i32_from_le_bytes(SubSeq(d, off + 1, off + 4)), off + 4>>

\* The variant each match arm builds.
StreamFilter(ft) ==
  CASE ft = 0 -> "ASCIIHexDecode"
    [] ft = 1 -> "ASCII85Decode"
    [] ft = 2 -> "LZWDecode"
    [] ft = 3 -> "FlateDecode"
    [] ft = 4 -> "RunLengthDecode"
    [] ft = 5 -> "DCTDecode"

\* get_i32 calls of a match arm.
ParamCount(ft) == IF ft \in {2, 3} THEN 5 ELSE IF ft = 5 THEN 1 ELSE 0

\* The parameter values of the example scenario and their four bytes, most
\* significant byte last (as from_le_bytes reads them) or first.
ExampleParams == <<1, 3, 8, 4, 0>>
WordLE(v) == <<v, 0, 0, 0>>
WordBE(v) == <<0, 0, 0, v>>
RECURSIVE Concat(_)
Concat(ws) == IF ws = <<>> THEN <<>> ELSE Head(ws) \o Concat(Tail(ws))

ParamBytes ==
  {Concat([i \in DOMAIN ExampleParams |-> WordLE(ExampleParams[i])]),
   Concat([i \in DOMAIN ExampleParams |-> WordBE(ExampleParams[i])]),
   Concat([i \in DOMAIN ExampleParams |-> <<255, 255, 255, 255>>])}

\* Inputs: a selector byte, twenty parameter bytes and a payload, cut anywhere.
Prefixes(q) == {SubSeq(q, 1, n) : n \in 0..Len(q)}
FuzzInputs ==
  UNION {Prefixes(<<s>> \o b \o p) :
           s \in 0..MaxSelector, b \in ParamBytes, p \in Seqs({0, 255}, MaxPayload)}

TreeIdle ==
  /\ kind = "Number" /\ root = Absent /\ store = [i \in NodeIds |-> Unread]
  /\ tree = None /\ stack = <<>> /\ log = <<>> /\ resolved = <<>> /\ ret = None
  /\ pc = "off"

FuzzInit ==
  /\ data \in FuzzInputs
  /\ offset = 0
  /\ filter_type = 0
  /\ params = <<>>
  /\ filter = "none"
  /\ payload = <<>>
  /\ fpc = "entry"
  /\ TreeIdle
  /\ PageIdle
  /\ WriteIdle

\* if data.len() < 1 { return; }
EmptyReturn ==
  /\ fpc = "entry"
  /\ Len(data) < 1
  /\ fpc' = "returned"
  /\ UNCHANGED <<data, offset, filter_type, params, filter, payload>>
  /\ UNCHANGED <<treeVars, pageVars, writeVars>>

\* let filter_type = data[offset] % 6; offset += 1;
Select ==
  /\ fpc = "entry"
  /\ Len(data) >= 1
  /\ filter_type' = data[offset + 1] % 6
  /\ offset' = offset + 1
  /\ fpc' = "match"
  /\ UNCHANGED <<data, params, filter, payload>>
  /\ UNCHANGED <<treeVars, pageVars, writeVars>>

\* One get_i32 call of the arms 2 | 3 and 5.
GetI32 ==
  /\ fpc = "match"
  /\ Len(params) < ParamCount(filter_type)
  /\ params' = Append(params, get_i32(data, offset)[1])
  /\ offset' = get_i32(data, offset)[2]
  /\ UNCHANGED <<data, filter_type, filter, payload, fpc>>
  /\ UNCHANGED <<treeVars, pageVars, writeVars>>

\* The arm's value: the StreamFilter with the parameters read.
Match ==
  /\ fpc = "match"
  /\ Len(params) = ParamCount(filter_type)
  /\ filter' = StreamFilter(filter_type)
  /\ fpc' = "slice"
  /\ UNCHANGED <<data, offset, filter_type, params, payload>>
  /\ UNCHANGED <<treeVars, pageVars, writeVars>>

\* if offset > data.len() { return; }  let payload = &data[offset..];
Slice ==
  /\ fpc = "slice"
  /\ IF offset > Len(data)
     THEN fpc' = "returned" /\ payload' = payload
     ELSE fpc' = "decode" /\ payload' = SubSeq(data, offset + 1, Len(data))
  /\ UNCHANGED <<data, offset, filter_type, params, filter>>
  /\ UNCHANGED <<treeVars, pageVars, writeVars>>

\* let _ = decode(payload, &filter);
Decode ==
  /\ fpc = "decode"
  /\ fpc' = "done"
  /\ UNCHANGED <<data, offset, filter_type, params, filter, payload>>
  /\ UNCHANGED <<treeVars, pageVars, writeVars>>

FuzzNext == EmptyReturn \/ Select \/ GetI32 \/ Match \/ Slice \/ Decode

FuzzSpec == FuzzInit /\ [][FuzzNext]_vars

(* ---------------- PageRc: a PagesNode::Leaf behind a shared reference ---------------- *)

\* Object ids of the page tree (1..MaxObjs).
MaxObjs == 3
\* Page contents range over 1..MaxPage.
MaxPage == 2
\* Number of PageRc operations of one session.
MaxOps == 3

PageIds == 1..MaxObjs
Pages == 1..MaxPage

PagesNode_Tree == [k |-> "Tree"]
PagesNode_Leaf(page) == [k |-> "Leaf", page |-> page]

PlainRef(id) == [id |-> id, gen |-> 0]
\* RcRef<PagesNode>: the identifier and the shared, already resolved node.
RcRef(id, node) == [inner |-> PlainRef(id), data |-> node]
\* Ref<PagesNode>: the typed wrapper of a PlainRef.
Ref(plain) == [inner |-> plain]

PdfError(t) == [t |-> t]
WrongDictionaryType(expected, found) ==
  [t |-> "WrongDictionaryType", expected |-> expected, found |-> found]

\* What an object of the file can be: nothing, a Pages node, a Page, something else.
FileObjects == {Missing, PagesNode_Tree, PagesNode_Leaf(1), Integer(1)}

\* An id the file has no object for.
NoPage == MaxObjs + 1

\* The primitives PageRc::from_primitive is called on.
PagePrims == {Reference(i) : i \in PageIds \cup {NoPage}} \cup {Integer(1)}

\* PagesNode::from_primitive: a Pages or a Page dictionary, or an error.
PagesNode_from_primitive(o) ==
  IF o.k \in {"Tree", "Leaf"} THEN Ok(o) ELSE Err(PdfError("UnexpectedPrimitive"))

\* Resolve::get for an RcRef: the instance the session already shares for
\* the id, or the object of that id reconstructed.
Resolve_get_shared(id, objs, cch) ==
  IF id \notin PageIds THEN Err(PdfError("NotFound"))
  ELSE IF cch[id].some THEN Ok(RcRef(id, cch[id].x))
  ELSE IF objs[id] = Missing THEN Err(PdfError("NotFound"))
  ELSE Try(PagesNode_from_primitive(objs[id]), LAMBDA node : Ok(RcRef(id, node)))

RcRef_from_primitive(p, objs, cch) ==
  IF p.k = "Ref" THEN Resolve_get_shared(p.id, objs, cch)
  ELSE Err(PdfError("UnexpectedPrimitive"))

RcRef_get_ref(rc) == Ref(rc.inner)

\* Updater::create: the value stored under a fresh id.
FreeIds(objs) == {i \in PageIds : objs[i] = Missing}
Updater_create(node, objs) ==
  IF FreeIds(objs) = {} THEN Err(PdfError("Other"))
  ELSE Ok(RcRef(CHOOSE i \in FreeIds(objs) : \A j \in FreeIds(objs) : i <= j, node))

\* Updater::update: the value stored over the object of an existing id.
Updater_update(plain, node, objs) ==
  IF plain.id \notin PageIds \/ objs[plain.id] = Missing \/ plain.gen # 0
  THEN Err(PdfError("NotFound"))
  ELSE Ok(RcRef(plain.id, node))

\* pub struct PageRc(RcRef<PagesNode>)
PageRc(rc) == [rcref |-> rc]

\* impl Deref for PageRc
deref(p) ==
  IF p.rcref.data.k = "Leaf" THEN [panics |-> FALSE, page |-> p.rcref.data.page]
  ELSE [panics |-> TRUE]

get_ref(p) == RcRef_get_ref(p.rcref)
get_plain_ref(p) == p.rcref.inner

PageRc_create(page, objs) ==
  Try(Updater_create(PagesNode_Leaf(page), objs), LAMBDA rc : Ok(PageRc(rc)))

PageRc_update(page, old_page, objs) ==
  Try(Updater_update(get_plain_ref(old_page), PagesNode_Leaf(page), objs),
      LAMBDA rc : Ok(PageRc(rc)))

PageRc_from_primitive_swapped(p, objs, cch) ==
  Try(RcRef_from_primitive(p, objs, cch), LAMBDA node :
    IF node.data.k = "Tree" THEN Err(WrongDictionaryType("Pages", "Page"))
    ELSE Ok(PageRc(node)))

PageRc_from_primitive_unchecked(p, objs, cch) ==
  Try(RcRef_from_primitive(p, objs, cch), LAMBDA node : Ok(PageRc(node)))

PageRc_from_primitive(p, objs, cch) ==
  Try(RcRef_from_primitive(p, objs, cch), LAMBDA node :
    IF node.data.k = "Tree" THEN Err(WrongDictionaryType("Page", "Pages"))
    ELSE Ok(PageRc(node)))

\* The store and the session cache once rc is the instance of its id.
Stored(objs, rc) == [objs EXCEPT ![rc.inner.id] = rc.data]
Shared(cch, rc) == [cch EXCEPT ![rc.inner.id] = Some(rc.data)]

PageInit ==
  /\ objects \in [PageIds -> FileObjects]
  /\ cache = [i \in PageIds |-> None]
  /\ held = {}
  /\ pres = None
  /\ pop = <<"open">>
  /\ pn = 0
  /\ TreeIdle
  /\ FuzzIdle
  /\ WriteIdle

\* The caller keeps the PageRc of a successful operation.
Keep(r) ==
  /\ pres' = r
  /\ held' = IF r.ok THEN held \cup {r.v} ELSE held
  /\ pn' = pn + 1

WriteStep(r) ==
  /\ Keep(r)
  /\ objects' = IF r.ok THEN Stored(objects, r.v.rcref) ELSE objects
  /\ cache' = IF r.ok THEN Shared(cache, r.v.rcref) ELSE cache

\* PageRc::create(page, update)
Create ==
  /\ pop[1] # "off" /\ pn < MaxOps
  /\ \E page \in Pages :
       /\ WriteStep(PageRc_create(page, objects))
       /\ pop' = <<"create", page>>
  /\ UNCHANGED <<treeVars, fuzzVars, writeVars>>

\* PageRc::update(page, old_page, update)
Update ==
  /\ pop[1] # "off" /\ pn < MaxOps
  /\ \E page \in Pages, old_page \in held :
       /\ WriteStep(PageRc_update(page, old_page, objects))
       /\ pop' = <<"update", page, old_page>>
  /\ UNCHANGED <<treeVars, fuzzVars, writeVars>>

ReadStep(node, r) ==
  /\ Keep(r)
  /\ cache' = IF node.ok THEN Shared(cache, node.v) ELSE cache
  /\ UNCHANGED objects

\* PageRc::from_primitive(p, resolve)
FromPrimitive ==
  /\ pop[1] # "off" /\ pn < MaxOps
  /\ \E p \in PagePrims :
       /\ ReadStep(RcRef_from_primitive(p, objects, cache),
                   PageRc_from_primitive(p, objects, cache))
       /\ pop' = <<"from_primitive", p>>
  /\ UNCHANGED <<treeVars, fuzzVars, writeVars>>

PageNext == Create \/ Update \/ FromPrimitive

PageSpec == PageInit /\ [][PageNext]_vars

(* ---------------- NumberTree::to_primitive ---------------- *)

\* Longest leaf and longest list of children of a tree written out.
MaxItems == 2

\* T::to_primitive for the value type of the tree, an integer.
T_to_primitive(val) == Ok(Integer(val))

\* The Limits entry: written only for limits = Some(..).
Limits_to_primitive(limits) ==
  IF limits.some THEN Arr(<<Integer(limits.x[1]), Integer(limits.x[2])>>) ELSE Absent

\* The Nums array: key and value of each item in turn.
Nums_to_primitive(items) ==
  Try(Collect([i \in 1..(2 * Len(items)) |->
                 IF i % 2 = 1 THEN Ok(Integer(items[(i + 1) \div 2][1]))
                 ELSE T_to_primitive(items[i \div 2][2])]),
      LAMBDA nums : Ok(Arr(nums)))

Kids_to_primitive(kids) == Arr([i \in DOMAIN kids |-> Reference(kids[i])])

\* to_primitive with the Limits entry left out.
NumberTree_to_primitive_noLimits(t) ==
  IF t.node.t = "Leaf"
  THEN Try(Nums_to_primitive(t.node.items), LAMBDA nums : Ok(Dict(Absent, Absent, nums)))
  ELSE Ok(Dict(Absent, Kids_to_primitive(t.node.kids), Absent))

NumberTree_to_primitive(t) ==
  IF t.node.t = "Leaf"
  THEN Try(Nums_to_primitive(t.node.items), LAMBDA nums :
         Ok(Dict(Limits_to_primitive(t.limits), Absent, nums)))
  ELSE Ok(Dict(Limits_to_primitive(t.limits), Kids_to_primitive(t.node.kids), Absent))

\* The trees written: with and without limits, leaves of up to MaxItems
\* pairs and intermediate nodes of up to MaxItems children.
OptLimits == {None} \cup {Some(<<a, b>>) : a, b \in 1..MaxKey}
NumberTrees ==
  {Leaf(l, items) : l \in OptLimits, items \in Seqs((1..MaxKey) \X (1..MaxKey), MaxItems)}
    \cup {Intermediate(l, kids) : l \in OptLimits, kids \in Seqs(NodeIds, MaxItems)}

WriteInit ==
  /\ wtree \in NumberTrees
  /\ wprim = None
  /\ wback = None
  /\ wpc = "tree"
  /\ TreeIdle
  /\ FuzzIdle
  /\ PageIdle

\* t.to_primitive(update)
ToPrimitive ==
  /\ wpc = "tree"
  /\ wprim' = NumberTree_to_primitive(wtree)
  /\ wpc' = "written"
  /\ UNCHANGED <<wtree, wback>>
  /\ UNCHANGED <<treeVars, fuzzVars, pageVars>>

\* NumberTree::from_primitive(p, resolve) on the primitive written
ReadBack ==
  /\ wpc = "written"
  /\ wprim.ok
  /\ wback' = NumberTree_from_primitive(wprim.v, store)
  /\ wpc' = "read"
  /\ UNCHANGED <<wtree, wprim>>
  /\ UNCHANGED <<treeVars, fuzzVars, pageVars>>

WriteNext == ToPrimitive \/ ReadBack

WriteSpec == WriteInit /\ [][WriteNext]_vars

(* ---------------- the traversal, stated on the tree as a whole ---------------- *)

RECURSIVE FlattenNode(_, _, _, _), FlattenKids(_, _, _, _)
\* The leaf pairs under a node, children in Kids order, pairs in list order.
FlattenNode(kd, t, st, fuel) ==
  IF t.node.t = "Leaf" THEN t.node.items
  ELSE IF fuel = 0 THEN <<>>
  ELSE FlattenKids(kd, t.node.kids, st, fuel)
FlattenKids(kd, kids, st, fuel) ==
  IF kids = <<>> THEN <<>>
  ELSE LET r == Resolve_get(kd, Head(kids), st) IN
       (IF r.ok THEN FlattenNode(kd, r.v, st, fuel - 1) ELSE <<>>)
         \o FlattenKids(kd, Tail(kids), st, fuel)

RECURSIVE ReachNode(_, _, _, _), ReachKids(_, _, _, _)
\* The Kids references under a node, in depth-first order, with repetitions.
ReachNode(kd, t, st, fuel) ==
  IF t.node.t = "Leaf" \/ fuel = 0 THEN <<>>
  ELSE ReachKids(kd, t.node.kids, st, fuel)
ReachKids(kd, kids, st, fuel) ==
  IF kids = <<>> THEN <<>>
  ELSE LET r == Resolve_get(kd, Head(kids), st) IN
       <<Head(kids)>>
         \o (IF r.ok THEN ReachNode(kd, r.v, st, fuel - 1) ELSE <<>>)
         \o ReachKids(kd, Tail(kids), st, fuel)

RECURSIVE Height(_, _, _, _)
\* Levels of Intermediate nodes on the longest path from a node down.
Height(kd, t, st, fuel) ==
  IF t.node.t = "Leaf" \/ fuel = 0 THEN 0
  ELSE LET hs == {IF Resolve_get(kd, t.node.kids[i], st).ok
                  THEN Height(kd, Resolve_get(kd, t.node.kids[i], st).v, st, fuel - 1)
                  ELSE 0 : i \in DOMAIN t.node.kids} \cup {0}
       IN 1 + CHOOSE h \in hs : \A g \in hs : g <= h

NoDuplicates(q) == \A i, j \in DOMAIN q : q[i] = q[j] => i = j

\* Every Kids reference resolves to a node and no node is reachable twice.
WellFormed(kd, t, st) ==
  LET ids == ReachNode(kd, t, st, MaxNodes + 1) IN
  /\ NoDuplicates(ids)
  /\ \A i \in DOMAIN ids : Resolve_get(kd, ids[i], st).ok

Keys(q) == [i \in DOMAIN q |-> q[i][1]]
Ascending(q) == \A i, j \in DOMAIN q : i < j => q[i] < q[j]

\* C1: walk on a well-formed tree returns Ok after passing to the callback
\* exactly the leaf pairs under the node, children in Kids order and pairs in
\* list order; when the keys are stored in ascending order the callback sees
\* them ascending; and such a walk never exhausts the stack.
C1_WalkVisitsLeafPairsInOrder ==
  /\ (pc = "done" /\ WellFormed(kind, tree.v, store)) =>
       /\ ret = Ok(<<>>)
       /\ log = FlattenNode(kind, tree.v, store, MaxNodes + 1)
       /\ Ascending(Keys(FlattenNode(kind, tree.v, store, MaxNodes + 1))) => Ascending(Keys(log))
  /\ pc = "aborted" => ~NoDuplicates([i \in DOMAIN stack |-> stack[i].id])

\* A finished walk over three levels of Intermediate nodes with ascending keys.
C1_Witness ==
  /\ pc = "done"
  /\ WellFormed(kind, tree.v, store)
  /\ Height(kind, tree.v, store, MaxNodes + 1) = 3
  /\ Len(log) >= 2
  /\ Ascending(Keys(log))

\* C2: a node without Kids whose leaf list has an odd number of elements is
\* an error, and an even list of 2n elements gives a Leaf of the n pairs
\* (list[2i], list[2i+1]).
C2_OddLeafListIsError ==
  (pc # "start" /\ root.k = "Dict" /\ root.Kids.k = "Absent" /\ root.Leaf.k = "Arr") =>
    /\ Len(root.Leaf.a) % 2 = 1 => ~tree.ok
    /\ (Len(root.Leaf.a) % 2 = 0 /\ tree.ok) =>
         /\ tree.v.node.t = "Leaf"
         /\ Len(tree.v.node.items) = Len(root.Leaf.a) \div 2

\* C3: a walk never enters a node it is already walking: a Kids reference
\* back to an active node is reported as an error instead.
C3_CycleIsNotEntered ==
  NoDuplicates([i \in DOMAIN stack |-> stack[i].id])

\* C4: the number of active walk invocations does not grow with the nesting
\* depth of the file: with MaxNodes node objects nested under the root it
\* stays at or below MaxNodes while no node is entered twice.
C4_ActiveWalksBounded ==
  NoDuplicates([i \in DOMAIN stack |-> stack[i].id]) => Len(stack) <= MaxNodes

\* C5: every key the walk of a node with limits = Some((low, high)) passes
\* to the callback lies in low..high.
C5_KeysWithinLimits ==
  (pc \in {"walking", "unwinding", "done", "aborted"} /\ tree.v.limits.some) =>
    \A i \in DOMAIN log :
      tree.v.limits.x[1] <= log[i][1] /\ log[i][1] <= tree.v.limits.x[2]

(* ---------------- what the dictionary says, read off the primitive ---------------- *)

IsKey(kd, p) == IF kd = "Number" THEN p.k = "Int" ELSE p.k = "Str"
KeyOf(p) == IF p.k = "Int" THEN p.n ELSE p.s

\* Limits is an array of exactly two keys of the tree's key type.
ValidPair(kd, l) ==
  /\ Direct(l).k = "Arr"
  /\ Len(Direct(l).a) = 2
  /\ IsKey(kd, Direct(l).a[1])
  /\ IsKey(kd, Direct(l).a[2])

\* The limits field a dictionary with well-formed or no Limits stands for.
LimitsOf(kd, l) ==
  IF l.k = "Absent" THEN None
  ELSE Some(<<KeyOf(Direct(l).a[1]), KeyOf(Direct(l).a[2])>>)

\* C6: a Limits entry that is not an array of exactly two keys of the tree's
\* key type is an error; a valid pair (a, b) gives limits = Some((a, b)) and
\* an absent entry gives limits = None.
C6_LimitsPairOrError ==
  (pc # "start" /\ root.k = "Dict") =>
    /\ (root.Limits.k # "Absent" /\ ~ValidPair(kind, root.Limits)) => ~tree.ok
    /\ (tree.ok /\ root.Limits.k # "Absent") => tree.v.limits = LimitsOf(kind, root.Limits)
    /\ (tree.ok /\ root.Limits.k = "Absent") => tree.v.limits = None

\* A node built from a dictionary whose Limits is a valid pair of distinct keys.
C6_Witness ==
  /\ pc = "built"
  /\ root.k = "Dict"
  /\ ValidPair(kind, root.Limits)
  /\ tree.v.limits.some
  /\ tree.v.limits.x[1] < tree.v.limits.x[2]

\* The Kids entry is an array of references.
ValidKids(k) ==
  /\ Direct(k).k = "Arr"
  /\ \A i \in DOMAIN Direct(k).a : Direct(k).a[i].k = "Ref"

\* C7: with a Kids entry the node is never a Leaf; it is Intermediate with
\* the Kids references in array order, and a dictionary whose Kids is an
\* array of references and whose Limits is absent or valid is built whatever
\* its leaf list.
C7_KidsMakeIntermediate ==
  (pc # "start" /\ root.k = "Dict" /\ root.Kids.k # "Absent") =>
    /\ tree.ok =>
         /\ tree.v.node.t = "Intermediate"
         /\ ValidKids(root.Kids)
         /\ tree.v.node.kids = [i \in DOMAIN Direct(root.Kids).a |-> Direct(root.Kids).a[i].id]
    /\ (ValidKids(root.Kids) /\ (root.Limits.k = "Absent" \/ ValidPair(kind, root.Limits)))
         => tree.ok

\* An Intermediate node built from Kids next to a leaf list that is no array.
C7_Witness ==
  /\ pc = "built"
  /\ root.k = "Dict"
  /\ root.Kids.k = "Arr"
  /\ Len(root.Kids.a) > 0
  /\ root.Leaf.k = "Int"
  /\ tree.v.node.t = "Intermediate"

RECURSIVE EvalNode(_, _, _, _), EvalKids(_, _, _, _)
\* What a walk of node t passes to the callback (log), which references it
\* resolves (res), and what it returns: children left to right, each
\* resolved when its turn comes, stopping at the first error.
EvalNode(kd, t, st, fuel) ==
  IF t.node.t = "Leaf" THEN [log |-> t.node.items, res |-> <<>>, ret |-> Ok(<<>>)]
  ELSE IF fuel = 0 THEN [log |-> <<>>, res |-> <<>>, ret |-> Err("Depth")]
  ELSE EvalKids(kd, t.node.kids, st, fuel)
EvalKids(kd, kids, st, fuel) ==
  IF kids = <<>> THEN [log |-> <<>>, res |-> <<>>, ret |-> Ok(<<>>)]
  ELSE LET r == Resolve_get(kd, Head(kids), st) IN
       IF ~r.ok THEN [log |-> <<>>, res |-> <<Head(kids)>>, ret |-> r]
       ELSE LET w == EvalNode(kd, r.v, st, fuel - 1) IN
            IF ~w.ret.ok THEN [log |-> w.log, res |-> <<Head(kids)>> \o w.res, ret |-> w.ret]
            ELSE LET rest == EvalKids(kd, Tail(kids), st, fuel) IN
                 [log |-> w.log \o rest.log,
                  res |-> <<Head(kids)>> \o w.res \o rest.res,
                  ret |-> rest.ret]

\* C9: construction resolves no child; while a walk runs, the invocation
\* nested in each active one is that of the child it resolved last, so every
\* earlier child has been walked to its end; and a walk that has returned or
\* is returning an error has resolved the children up to the failing one and
\* nothing after it, and has passed to the callback the leaf pairs before the
\* failure and nothing else.
C9_ChildrenResolvedOneAtATime ==
  /\ pc = "built" => (resolved = <<>> /\ \A i \in NodeIds : store[i].k = "Unread")
  /\ \A j \in 1..(Len(stack) - 1) :
       /\ stack[j].i >= 1
       /\ stack[j + 1].id = stack[j].tree.node.kids[stack[j].i]
  /\ Len(resolved) >= Len(stack) - 1
  /\ pc \in {"unwinding", "done"} =>
       /\ log = EvalNode(kind, tree.v, store, StackLimit).log
       /\ resolved = EvalNode(kind, tree.v, store, StackLimit).res
       /\ ret = EvalNode(kind, tree.v, store, StackLimit).ret

\* A walk that failed at a child after walking an earlier child's leaf, with
\* a later child left unresolved.
C9_Witness ==
  /\ pc = "done"
  /\ ~ret.ok
  /\ Len(log) > 0
  /\ tree.v.node.t = "Intermediate"
  /\ Len(tree.v.node.kids) = 3
  /\ Len(resolved) = 2
  /\ store[tree.v.node.kids[3]].k = "Unread"

(* ---------------- the example scenario of the fuzz target ---------------- *)

ExampleBytes == <<2>> \o Concat([i \in DOMAIN ExampleParams |-> WordBE(ExampleParams[i])])

IsExample == Len(data) >= 21 /\ SubSeq(data, 1, 21) = ExampleBytes

\* C10 as stated: the example bytes select FlateDecode with the parameters
\* 1, 3, 8, 4, 0 and the bytes after the first 21 as payload.
C10_ExampleSelectsFlate ==
  (IsExample /\ fpc \in {"decode", "done"}) =>
    /\ filter = "FlateDecode"
    /\ params = <<1, 3, 8, 4, 0>>
    /\ payload = SubSeq(data, 22, Len(data))

\* C10 amended: the example bytes select LZWDecode, each parameter is its
\* four bytes read least significant byte first, and the bytes after the
\* first 21 are the payload.
C10_ExampleSelectsLZW ==
  (IsExample /\ fpc \in {"decode", "done"}) =>
    /\ filter = "LZWDecode"
    /\ params = <<16777216, 50331648, 134217728, 67108864, 0>>
    /\ payload = SubSeq(data, 22, Len(data))

\* decode has been called on the example bytes followed by a payload.
C10_Witness ==
  /\ IsExample
  /\ fpc = "done"
  /\ Len(data) > 21
  /\ Len(payload) > 0

(* ---------------- PageRc ---------------- *)

\* What from_primitive owes its caller when the reference layer gave node
\* for the primitive: r is its result, cch the session cache afterwards.
PageOutcome(node, r, cch) ==
  /\ node.ok /\ node.v.data.k = "Tree" => r = Err(WrongDictionaryType("Page", "Pages"))
  /\ node.ok /\ node.v.data.k = "Leaf" =>
        /\ r = Ok(PageRc(node.v))
        /\ cch[node.v.inner.id] = Some(r.v.rcref.data)
  /\ ~node.ok => r = node
  /\ r.ok => r.v.rcref.data.k # "Tree"

C12_PageRcWrapsLeaf ==
  \A p \in held :
    /\ p.rcref.data.k = "Leaf"
    /\ ~deref(p).panics
    /\ get_ref(p).inner = get_plain_ref(p)

\* An update has given a second PageRc for the id of one still held, in a
\* file that has a Pages node.
C12_Witness ==
  /\ pop[1] = "update" /\ pres.ok
  /\ \E p, q \in held : p # q /\ get_plain_ref(p) = get_plain_ref(q)
  /\ \E p \in held : get_plain_ref(p) = get_plain_ref(pres.v) /\ deref(p).page # deref(pres.v).page
  /\ \E i \in PageIds : objects[i] = PagesNode_Tree

(* ---------------- NumberTree written and read back ---------------- *)

\* C13: from_primitive of to_primitive of a NumberTree succeeds and gives
\* the same limits, the same node kind and the same pairs or child
\* references in the same order; to_primitive writes exactly one of Nums and
\* Kids, and Limits only when limits is Some.
C13_NumberTreeRoundTrips ==
  /\ wpc \in {"written", "read"} =>
        /\ wprim.ok
        /\ (wprim.v.Kids.k = "Absent") # (wprim.v.Leaf.k = "Absent")
        /\ (wprim.v.Leaf.k # "Absent") = (wtree.node.t = "Leaf")
        /\ (wprim.v.Limits.k # "Absent") = wtree.limits.some
  /\ wpc = "read" =>
        /\ wback.ok
        /\ wback.v.limits = wtree.limits
        /\ wback.v.node = wtree.node

\* A leaf of two pairs with descending keys and limits has been read back.
C13_Witness ==
  /\ wpc = "read"
  /\ wtree.limits.some
  /\ wtree.node.t = "Leaf"
  /\ Len(wtree.node.items) = MaxItems
  /\ wtree.node.items[1][1] > wtree.node.items[2][1]
  /\ wback = Ok(wtree)

(* ---------------- NameTree and NumberTree side by side ---------------- *)

\* The correspondence between the inputs of the two constructions: a string
\* key for an integer key of the same rank, written inline or as a
\* reference to a key object, and a list of string keys for a list of
\* integer keys.
CorrKey(p) ==
  CASE p.k = "Int" -> String(p.n)
    [] p.k = "Str" -> Integer(p.s)
    [] p = Reference(IntObj) -> Reference(StrObj)
    [] p = Reference(StrObj) -> Reference(IntObj)
    [] OTHER -> p

CorrLimits(l) ==
  CASE l.k = "Arr" -> Arr([i \in DOMAIN l.a |-> CorrKey(l.a[i])])
    [] l = Reference(IntArrObj) -> Reference(StrArrObj)
    [] l = Reference(StrArrObj) -> Reference(IntArrObj)
    [] OTHER -> l

CorrLeaf(f) ==
  CASE f.k = "Arr" -> Arr([i \in DOMAIN f.a |-> IF i % 2 = 1 THEN CorrKey(f.a[i]) ELSE f.a[i]])
    [] f = Reference(IntArrObj) -> Reference(PairObj)
    [] f = Reference(PairObj) -> Reference(IntArrObj)
    [] OTHER -> f

Corr(p) ==
  IF p.k = "Dict" THEN Dict(CorrLimits(p.Limits), p.Kids, CorrLeaf(p.Leaf)) ELSE p

OtherKind(kd) == IF kd = "Number" THEN "Name" ELSE "Number"

\* Leaf or Intermediate with the number of pairs or children, or error.
Classify(r) ==
  IF ~r.ok THEN <<"error">>
  ELSE IF r.v.node.t = "Leaf" THEN <<"Leaf", Len(r.v.node.items)>>
  ELSE <<"Intermediate", Len(r.v.node.kids)>>

\* C14: NumberTree::from_primitive and NameTree::from_primitive classify
\* corresponding inputs alike (Leaf, Intermediate or error, and the number
\* of pairs), also when the leaf list or a leaf key is an indirect reference.
C14_TreesClassifyAlike ==
  pc \in {"failed", "built"} =>
    Classify(tree) = Classify(from_primitive(OtherKind(kind), Corr(root), store))

(* ---------------- the fuzz target's split on every input ---------------- *)

\* Parameters of the selected filter that have all four of their bytes.
WholeWords == 
  IF (Len(data) - 1) \div 4 < ParamCount(filter_type) THEN (Len(data) - 1) \div 4
  ELSE ParamCount(filter_type)

\* C15: on every input the offset stays within the data after each get_i32
\* call and at the payload slice; the target returns early only on the empty
\* input and otherwise reaches decode with payload = data[offset..]; a
\* parameter with fewer than four bytes left reads as 0 and leaves the
\* offset where it was, so that the bytes left over are the payload; the
\* selector always maps to one of the six filter variants.
C15_SplitStaysInBounds ==
  /\ fpc # "off" => offset <= Len(data)
  /\ fpc = "returned" => Len(data) = 0
  /\ fpc \in {"entry", "match", "slice", "decode"} => ENABLED FuzzNext
  /\ fpc \in {"match", "slice", "decode", "done"} => filter_type \in 0..5
  /\ fpc \in {"slice", "decode", "done"} =>
        /\ filter \in {"ASCIIHexDecode", "ASCII85Decode", "LZWDecode", "FlateDecode",
                        "RunLengthDecode", "DCTDecode"}
        /\ Len(params) = ParamCount(filter_type)
        /\ offset = 1 + 4 * WholeWords
        /\ \A i \in (WholeWords + 1)..Len(params) : params[i] = 0
  /\ fpc \in {"decode", "done"} =>
        /\ payload = SubSeq(data, offset + 1, Len(data))
        /\ Len(payload) = Len(data) - offset

\* decode has run on an input that ends inside the second parameter: the
\* first parameter was read, the other four read as 0, and the one to three
\* bytes of the cut parameter are the payload.
C15_Witness ==
  /\ fpc = "done"
  /\ filter_type \in {2, 3}
  /\ Len(data) \in 6..8
  /\ params[1] # 0
  /\ \A i \in 2..5 : params[i] = 0
  /\ offset = 5
  /\ payload = SubSeq(data, 6, Len(data))
  /\ \E i \in DOMAIN payload : payload[i] # 0

====
